---- MODULE Spec2Model ----
(***************************************************************************)
(* A model of the OpenRouter client of qmd (src/src/openrouter.ts) and of  *)
(* the default-instance layer around it (src/src/llm.ts).                  *)
(*                                                                         *)
(* JavaScript values are modelled as follows.  A string that may be absent *)
(* is a TLA+ string, with Undefined standing for `undefined`.  Free text   *)
(* that the code takes apart (a query, a generated completion) is a        *)
(* sequence of one-character strings.  Every value of a union type is a    *)
(* record with a `tag` field, so that null and an object can be compared.  *)
(***************************************************************************)
EXTENDS Integers, Sequences, FiniteSets, TLC

VARIABLES
    env,      \* process.env: the three variables the constructor reads
    llm,      \* the OpenRouterLLM instance under use, or NoInstance
    thrown,   \* message of the error the last operation threw, or NoError
    dims,     \* value last returned by getEmbeddingDimensions, or NoDims
    pc,       \* position of the current asynchronous call
    args,     \* arguments of the current call
    net,      \* outcome of the fetch the current call awaits
    ret,      \* value the current call resolved to, or NoRet
    nreq,     \* provider requests issued by the current call
    docIx,    \* indexing loop: position in the document list
    seq,      \* indexing loop: chunk sequence number within the document
    chunks,   \* indexing loop: number of chunks of the current document
    store,    \* rows written by insertEmbedding
    failed,   \* chunks whose provider call failed (history of the loop)
    defaultLLM, \* llm.ts: the module-level default instance, or NoInstance
    created,  \* instances constructed by getDefaultLLM so far
    disposed, \* per instance, how many times its dispose() was invoked
    dpc,      \* per disposeDefaultLLM call, its position
    began,    \* per disposeDefaultLLM call, the default when the call began (history)
    got,      \* what the last getDefaultLLM returned (history)
    sinceGot, \* what getDefaultLLM returned since the last set/dispose call (history)
    installed, \* instance of the last setDefaultLLM, until the next set/dispose call (history)
    getFailed \* some getDefaultLLM call has thrown (history)

vars == <<env, llm, thrown, dims, pc, args, net, ret, nreq, docIx, seq, chunks, store, failed,
          defaultLLM, created, disposed, dpc, began, got, sinceGot, installed, getFailed>>

----------------------------------------------------------------------------
(* Bounds of the model *)

\* longest list of texts handed to embedBatch
MaxBatch == 3
\* most lines in a generated completion
MaxLines == 2
\* most chunks chunkDocument yields for one document
MaxChunks == 2
\* most instances getDefaultLLM constructs in one run
MaxConstructed == 2
\* most disposeDefaultLLM calls in one run
MaxDisposers == 2

----------------------------------------------------------------------------
(* JavaScript values *)

Undefined == "<undefined>"
Null == [tag |-> "null"]
NoInstance == [tag |-> "none"]
NoError == ""
NoDims == [tag |-> "nodims"]
NoRet == [tag |-> "noret"]
NoArgs == [tag |-> "noargs"]
NoFetch == [tag |-> "nofetch"]

\* !s for a string that may be absent
Falsy(s) == s = Undefined \/ s = ""

\* a || b on strings
Or(a, b) == IF Falsy(a) THEN b ELSE a

----------------------------------------------------------------------------
(* openrouter.ts: constants *)

OPENROUTER_API_BASE == "https://openrouter.ai/api/v1"
DEFAULT_EMBED_MODEL == "openai/text-embedding-3-large"
DEFAULT_CHAT_MODEL == "openai/gpt-4o-mini"

EMBEDDING_DIMENSIONS ==
    ("openai/text-embedding-3-large" :> 3072) @@
    ("openai/text-embedding-3-small" :> 1536) @@
    ("openai/text-embedding-ada-002" :> 1536)

ApiKeyError == "OpenRouter API key required. Set OPENROUTER_API_KEY environment variable."

----------------------------------------------------------------------------
(* openrouter.ts: constructor and getEmbeddingDimensions *)

\* Faulty variant: the key check tests only for an absent key, so "" passes.
ConstructorAcceptsEmptyKey(config, e) ==
    LET apiKey == IF config.apiKey # Undefined THEN config.apiKey
                  ELSE IF e.OPENROUTER_API_KEY # Undefined THEN e.OPENROUTER_API_KEY
                  ELSE ""
    IN  IF apiKey = Undefined
        THEN [threw |-> TRUE, error |-> ApiKeyError, value |-> NoInstance]
        ELSE [threw |-> FALSE, error |-> NoError,
              value |-> [tag |-> "llm",
                         apiKey |-> apiKey,
                         embedModel |-> Or(Or(config.embedModel, e.QMD_EMBED_MODEL), DEFAULT_EMBED_MODEL),
                         chatModel |-> Or(Or(config.chatModel, e.QMD_CHAT_MODEL), DEFAULT_CHAT_MODEL),
                         baseUrl |-> Or(config.baseUrl, OPENROUTER_API_BASE)]]

\* Faulty variant: the environment's model names override the configured ones.
ConstructorEnvModelFirst(config, e) ==
    LET apiKey == Or(Or(config.apiKey, e.OPENROUTER_API_KEY), "")
    IN  IF Falsy(apiKey)
        THEN [threw |-> TRUE, error |-> ApiKeyError, value |-> NoInstance]
        ELSE [threw |-> FALSE, error |-> NoError,
              value |-> [tag |-> "llm",
                         apiKey |-> apiKey,
                         embedModel |-> Or(Or(e.QMD_EMBED_MODEL, config.embedModel), DEFAULT_EMBED_MODEL),
                         chatModel |-> Or(Or(e.QMD_CHAT_MODEL, config.chatModel), DEFAULT_CHAT_MODEL),
                         baseUrl |-> Or(config.baseUrl, OPENROUTER_API_BASE)]]

\* new OpenRouterLLM(config) under environment e: the instance, or the error thrown
OpenRouterLLM(config, e) ==
    LET apiKey == Or(Or(config.apiKey, e.OPENROUTER_API_KEY), "")
    IN  IF Falsy(apiKey)
        THEN [threw |-> TRUE, error |-> ApiKeyError, value |-> NoInstance]
        ELSE [threw |-> FALSE, error |-> NoError,
              value |-> [tag |-> "llm",
                         apiKey |-> apiKey,
                         embedModel |-> Or(Or(config.embedModel, e.QMD_EMBED_MODEL), DEFAULT_EMBED_MODEL),
                         chatModel |-> Or(Or(config.chatModel, e.QMD_CHAT_MODEL), DEFAULT_CHAT_MODEL),
                         baseUrl |-> Or(config.baseUrl, OPENROUTER_API_BASE)]]

\* this.getEmbeddingDimensions()
getEmbeddingDimensions(inst) ==
    IF inst.embedModel \in DOMAIN EMBEDDING_DIMENSIONS
    THEN EMBEDDING_DIMENSIONS[inst.embedModel]
    ELSE 3072

----------------------------------------------------------------------------
(* Inputs of the constructor *)

ApiKeys == {Undefined, "", "sk-config"}
EnvApiKeys == {Undefined, "", "sk-env"}
EmbedModels == {Undefined, "openai/text-embedding-3-small",
                "openai/text-embedding-ada-002", "acme/embed-v1"}
EnvEmbedModels == {Undefined, "openai/text-embedding-3-small", "acme/embed-v1"}
ChatModels == {Undefined, "anthropic/claude-3-haiku"}
EnvChatModels == {Undefined, "anthropic/claude-3-haiku", "openai/gpt-4o"}

Configs ==
    [apiKey : ApiKeys, embedModel : EmbedModels, chatModel : ChatModels,
     baseUrl : {Undefined}]

Envs ==
    [OPENROUTER_API_KEY : EnvApiKeys, QMD_EMBED_MODEL : EnvEmbedModels,
     QMD_CHAT_MODEL : EnvChatModels]

\* the environment of a process that has only the API key set
KeyOnlyEnv ==
    [OPENROUTER_API_KEY |-> "sk-env", QMD_EMBED_MODEL |-> Undefined,
     QMD_CHAT_MODEL |-> Undefined]

\* the instances a caller can hold under KeyOnlyEnv
Instances ==
    {OpenRouterLLM(c, KeyOnlyEnv).value :
        c \in {k \in Configs : k.apiKey = Undefined /\ k.chatModel = Undefined}}

----------------------------------------------------------------------------
(* State shared by the specifications *)

IdleCall ==
    /\ pc = "idle"
    /\ args = NoArgs
    /\ net = NoFetch
    /\ ret = NoRet
    /\ nreq = 0

IdleLoop ==
    /\ docIx = 0
    /\ seq = 0
    /\ chunks = 0
    /\ store = {}
    /\ failed = {}

\* an instance as the default-instance layer sees it: an object identity,
\* made by getDefaultLLM ("lazy") or by the caller ("external")
Instance(origin, n) == [tag |-> "llm", origin |-> origin, n |-> n]

LazyInstances == {Instance("lazy", n) : n \in 1..MaxConstructed}
ExternalInstances == {Instance("external", 1)}
DefaultInstances == LazyInstances \cup ExternalInstances
Disposers == 1..MaxDisposers

\* llm.ts as loaded: let defaultLLM = null, nothing called yet
NoDefault ==
    /\ defaultLLM = NoInstance
    /\ created = 0
    /\ disposed = [i \in DefaultInstances |-> 0]
    /\ dpc = [p \in Disposers |-> "idle"]
    /\ began = [p \in Disposers |-> NoInstance]
    /\ got = NoInstance
    /\ sinceGot = NoInstance
    /\ installed = NoInstance
    /\ getFailed = FALSE

callVars == <<pc, args, net, ret, nreq>>
defaultVars == <<defaultLLM, created, disposed, dpc, began, got, sinceGot, installed, getFailed>>
loopVars == <<docIx, seq, chunks, store, failed>>
instVars == <<env, llm, thrown, dims>>

----------------------------------------------------------------------------
(* Construction: new OpenRouterLLM(config), getEmbeddingDimensions() *)

InitConstruct ==
    /\ env \in Envs
    /\ llm = NoInstance
    /\ thrown = NoError
    /\ dims = NoDims
    /\ IdleCall
    /\ IdleLoop
    /\ NoDefault

\* llm = new OpenRouterLLM(config), the variable being unassigned before
Construct(config) ==
    /\ llm = NoInstance
    /\ thrown = NoError
    /\ LET r == OpenRouterLLM(config, env)
       IN  /\ llm' = r.value
           /\ thrown' = r.error
    /\ args' = [tag |-> "new", config |-> config]
    /\ UNCHANGED <<env, dims, pc, net, ret, nreq>>
    /\ UNCHANGED loopVars
    /\ UNCHANGED defaultVars

\* llm.getEmbeddingDimensions()
GetEmbeddingDimensions ==
    /\ llm # NoInstance
    /\ dims = NoDims
    /\ dims' = [tag |-> "number", value |-> getEmbeddingDimensions(llm)]
    /\ UNCHANGED <<env, llm, thrown>>
    /\ UNCHANGED callVars
    /\ UNCHANGED loopVars
    /\ UNCHANGED defaultVars

NextConstruct ==
    \/ \E config \in Configs : Construct(config)
    \/ GetEmbeddingDimensions

SpecConstruct == InitConstruct /\ [][NextConstruct]_vars

----------------------------------------------------------------------------
(* The provider: what a fetch to OpenRouter can resolve to *)

\* texts handed to embed and embedBatch (opaque to the client; a text is a tuple)
Texts == {<<"a">>, <<"b">>}

\* lengths of the vectors a provider sends
ProviderVectorLengths == {1536, 3072}

\* HTTP statuses of a response that is not OK
ErrorStatuses == {401, 500}

\* the provider's embedding of a text: which text it embeds, and its length
Vec(text, len) == [of |-> text, len |-> len]

\* the array literal []
EmptyVec == [of |-> <<>>, len |-> 0]

\* injective sequences over S of length at most n
InjSeqs(S, n) ==
    {s \in UNION {[1..k -> S] : k \in 0..n} :
        \A i, j \in DOMAIN s : i # j => s[i] # s[j]}

\* the input of an /embeddings request as a list of texts
InputList(request) ==
    IF request.batch THEN request.input ELSE <<request.input>>

\* the item the provider tags with index i: the embedding of input i, or of
\* nothing the client sent when i is out of range
ProviderItem(texts, i, len) ==
    [embedding |-> Vec(IF i < Len(texts) THEN texts[i + 1] ELSE <<"?">>, len),
     index |-> i]

\* bodies of a 200 response to an /embeddings request: any selection of the
\* items, in any order, possibly with one the client did not ask for
EmbeddingBodies(request) ==
    LET texts == InputList(request)
    IN  {[tag |-> "json",
          data |-> [k \in DOMAIN ix |-> ProviderItem(texts, ix[k], len)],
          model |-> request.model] :
            ix \in InjSeqs(0..Len(texts), Len(texts) + 1),
            len \in ProviderVectorLengths}

\* a body that is not JSON
InvalidBody == [tag |-> "invalid"]

----------------------------------------------------------------------------
(* openrouter.ts: request *)

\* the fetch that request() issues
Fetch(inst, endpoint, body) ==
    [tag |-> "pending",
     request |-> [url |-> inst.baseUrl, endpoint |-> endpoint,
                  authorization |-> inst.apiKey] @@ body]

\* request() after its fetch settled: the parsed body, or the error thrown
request(outcome) ==
    IF outcome.tag = "reject"
    THEN [threw |-> TRUE, error |-> "fetch failed", value |-> Null]
    ELSE IF ~outcome.ok
    THEN [threw |-> TRUE, error |-> "OpenRouter API error", value |-> Null]
    ELSE IF outcome.body.tag = "invalid"
    THEN [threw |-> TRUE, error |-> "SyntaxError", value |-> Null]
    ELSE [threw |-> FALSE, error |-> NoError, value |-> outcome.body]

----------------------------------------------------------------------------
(* openrouter.ts: embed and embedBatch *)

\* an EmbeddingResult
EmbeddingResult(embedding, model) ==
    [tag |-> "embedding", embedding |-> embedding, model |-> model]

\* Faulty variant: a failed request yields a result with an empty vector.
EmbedEmptyVectorOnFailure(outcome) ==
    LET r == request(outcome)
    IN  IF r.threw
        THEN EmbeddingResult(EmptyVec, "")
        ELSE EmbeddingResult(
                IF Len(r.value.data) = 0 THEN EmptyVec ELSE r.value.data[1].embedding,
                r.value.model)

\* embed() after its request settled
embed(outcome) ==
    LET r == request(outcome)
    IN  IF r.threw
        THEN Null
        ELSE EmbeddingResult(
                IF Len(r.value.data) = 0 THEN EmptyVec ELSE r.value.data[1].embedding,
                r.value.model)

\* insert item x into a list sorted by index, after the items that do not
\* compare greater (the sort is stable)
RECURSIVE InsertByIndex(_, _)
InsertByIndex(x, s) ==
    IF s = <<>> THEN <<x>>
    ELSE IF x.index - Head(s).index < 0 THEN <<x>> \o s
    ELSE <<Head(s)>> \o InsertByIndex(x, Tail(s))

\* data.sort((a, b) => a.index - b.index)
RECURSIVE SortByIndex(_)
SortByIndex(data) ==
    IF data = <<>> THEN <<>>
    ELSE InsertByIndex(data[Len(data)], SortByIndex(SubSeq(data, 1, Len(data) - 1)))

\* Faulty variant: the response is taken in the order the provider sent it.
EmbedBatchInResponseOrder(texts, outcome) ==
    LET r == request(outcome)
    IN  IF r.threw
        THEN [i \in 1..Len(texts) |-> Null]
        ELSE [i \in 1..Len(r.value.data) |->
                EmbeddingResult(r.value.data[i].embedding, r.value.model)]

\* Faulty variant: a failed request yields an empty list.
EmbedBatchEmptyOnFailure(texts, outcome) ==
    LET r == request(outcome)
    IN  IF r.threw
        THEN <<>>
        ELSE LET sorted == SortByIndex(r.value.data)
             IN  [i \in 1..Len(sorted) |->
                    EmbeddingResult(sorted[i].embedding, r.value.model)]

\* embedBatch(texts) after its request settled (texts is not empty)
embedBatch(texts, outcome) ==
    LET r == request(outcome)
    IN  IF r.threw
        THEN [i \in 1..Len(texts) |-> Null]
        ELSE LET sorted == SortByIndex(r.value.data)
             IN  [i \in 1..Len(sorted) |->
                    EmbeddingResult(sorted[i].embedding, r.value.model)]

\* a list returned to the caller
List(items) == [tag |-> "list", items |-> items]

TextLists == UNION {[1..k -> Texts] : k \in 0..MaxBatch}

----------------------------------------------------------------------------
(* Calls on an instance: each call issues its request, awaits the fetch    *)
(* and resumes when the fetch has settled                                  *)

\* the endpoint the pending fetch goes to
PendingOn(endpoint) ==
    /\ net.tag = "pending"
    /\ net.request.endpoint = endpoint

\* the fetch rejects: no response at all
FetchReject ==
    /\ net.tag = "pending"
    /\ net' = [tag |-> "reject"]
    /\ UNCHANGED <<pc, args, ret, nreq>>
    /\ UNCHANGED instVars
    /\ UNCHANGED loopVars
    /\ UNCHANGED defaultVars

\* the provider answers with a status that is not OK
FetchHttpError(status) ==
    /\ net.tag = "pending"
    /\ net' = [tag |-> "http", ok |-> FALSE, status |-> status, body |-> InvalidBody]
    /\ UNCHANGED <<pc, args, ret, nreq>>
    /\ UNCHANGED instVars
    /\ UNCHANGED loopVars
    /\ UNCHANGED defaultVars

\* the provider answers 200 with a body that does not parse
FetchInvalidBody ==
    /\ net.tag = "pending"
    /\ net' = [tag |-> "http", ok |-> TRUE, status |-> 200, body |-> InvalidBody]
    /\ UNCHANGED <<pc, args, ret, nreq>>
    /\ UNCHANGED instVars
    /\ UNCHANGED loopVars
    /\ UNCHANGED defaultVars

\* the provider answers 200 to an /embeddings request
FetchEmbeddings ==
    /\ PendingOn("/embeddings")
    /\ \E body \in EmbeddingBodies(net.request) :
          net' = [tag |-> "http", ok |-> TRUE, status |-> 200, body |-> body]
    /\ UNCHANGED <<pc, args, ret, nreq>>
    /\ UNCHANGED instVars
    /\ UNCHANGED loopVars
    /\ UNCHANGED defaultVars

\* llm.embed(text) up to its await
EmbedCall(text) ==
    /\ pc = "idle"
    /\ llm # NoInstance
    /\ pc' = "embed"
    /\ args' = [tag |-> "embed", text |-> text]
    /\ net' = Fetch(llm, "/embeddings",
                    [model |-> llm.embedModel, input |-> text, batch |-> FALSE])
    /\ nreq' = 1
    /\ ret' = NoRet
    /\ UNCHANGED instVars
    /\ UNCHANGED loopVars
    /\ UNCHANGED defaultVars

\* Faulty variant: a failed request is issued once more before embed returns.
EmbedResumeRetriesOnce ==
    /\ pc = "embed"
    /\ net.tag \in {"reject", "http"}
    /\ IF request(net).threw /\ nreq < 2
       THEN /\ net' = Fetch(llm, "/embeddings",
                           [model |-> llm.embedModel, input |-> args.text, batch |-> FALSE])
            /\ nreq' = nreq + 1
            /\ UNCHANGED <<pc, ret>>
       ELSE /\ ret' = embed(net)
            /\ pc' = "done"
            /\ UNCHANGED <<net, nreq>>
    /\ UNCHANGED args
    /\ UNCHANGED instVars
    /\ UNCHANGED loopVars
    /\ UNCHANGED defaultVars

\* llm.embed(text) from its await to its return
EmbedResume ==
    /\ pc = "embed"
    /\ net.tag \in {"reject", "http"}
    /\ ret' = embed(net)
    /\ pc' = "done"
    /\ UNCHANGED <<args, net, nreq>>
    /\ UNCHANGED instVars
    /\ UNCHANGED loopVars
    /\ UNCHANGED defaultVars

\* llm.embedBatch(texts) up to its await, or to its return when texts is empty
EmbedBatchCall(texts) ==
    /\ pc = "idle"
    /\ llm # NoInstance
    /\ args' = [tag |-> "embedBatch", texts |-> texts]
    /\ IF Len(texts) = 0
       THEN /\ pc' = "done"
            /\ ret' = List(<<>>)
            /\ nreq' = 0
            /\ net' = NoFetch
       ELSE /\ pc' = "embedBatch"
            /\ ret' = NoRet
            /\ nreq' = 1
            /\ net' = Fetch(llm, "/embeddings",
                            [model |-> llm.embedModel, input |-> texts, batch |-> TRUE])
    /\ UNCHANGED instVars
    /\ UNCHANGED loopVars
    /\ UNCHANGED defaultVars

\* llm.embedBatch(texts) from its await to its return
EmbedBatchResume ==
    /\ pc = "embedBatch"
    /\ net.tag \in {"reject", "http"}
    /\ ret' = List(embedBatch(args.texts, net))
    /\ pc' = "done"
    /\ UNCHANGED <<args, net, nreq>>
    /\ UNCHANGED instVars
    /\ UNCHANGED loopVars
    /\ UNCHANGED defaultVars

InitEmbed ==
    /\ env = KeyOnlyEnv
    /\ llm \in Instances
    /\ thrown = NoError
    /\ dims = NoDims
    /\ IdleCall
    /\ IdleLoop
    /\ NoDefault

NextEmbed ==
    \/ \E text \in Texts : EmbedCall(text)
    \/ \E texts \in TextLists : EmbedBatchCall(texts)
    \/ FetchReject
    \/ \E status \in ErrorStatuses : FetchHttpError(status)
    \/ FetchInvalidBody
    \/ FetchEmbeddings
    \/ EmbedResume
    \/ EmbedBatchResume
    \/ GetEmbeddingDimensions

SpecEmbed == InitEmbed /\ [][NextEmbed]_vars

----------------------------------------------------------------------------
(* JavaScript strings as sequences of characters *)

LF == "\n"
CR == "\r"

\* the characters \s matches and trim() removes (those of the model's alphabet)
WhiteSpace == {" ", "\t", LF, CR}

\* the characters . does not match
LineTerminators == {LF, CR}

UpperToLower ==
    ("V" :> "v") @@ ("E" :> "e") @@ ("C" :> "c") @@
    ("H" :> "h") @@ ("Y" :> "y") @@ ("D" :> "d")

\* s.toLowerCase()
toLowerCase(s) ==
    [i \in DOMAIN s |-> IF s[i] \in DOMAIN UpperToLower THEN UpperToLower[s[i]] ELSE s[i]]

\* number of leading whitespace characters of s
RECURSIVE LeadingSpace(_)
LeadingSpace(s) ==
    IF s = <<>> \/ Head(s) \notin WhiteSpace THEN 0 ELSE 1 + LeadingSpace(Tail(s))

\* number of trailing whitespace characters of s
RECURSIVE TrailingSpace(_)
TrailingSpace(s) ==
    IF s = <<>> \/ s[Len(s)] \notin WhiteSpace THEN 0
    ELSE 1 + TrailingSpace(SubSeq(s, 1, Len(s) - 1))

\* s.trim()
trim(s) ==
    LET a == LeadingSpace(s)
    IN  IF a = Len(s) THEN <<>> ELSE SubSeq(s, a + 1, Len(s) - TrailingSpace(s))

\* s.split("\n")
RECURSIVE split(_)
split(s) ==
    IF \A i \in DOMAIN s : s[i] # LF THEN <<s>>
    ELSE LET i == CHOOSE k \in DOMAIN s : s[k] = LF /\ \A j \in 1..(k - 1) : s[j] # LF
         IN  <<SubSeq(s, 1, i - 1)>> \o split(SubSeq(s, i + 1, Len(s)))

\* lines.join("\n")
RECURSIVE join(_)
join(lines) ==
    IF lines = <<>> THEN <<>>
    ELSE IF Len(lines) = 1 THEN lines[1]
    ELSE lines[1] \o <<LF>> \o join(Tail(lines))

VEC == <<"v", "e", "c">>
HYDE == <<"h", "y", "d", "e">>

\* \s*(.+)$ against the rest of a line: the text group 2 captures, or no match.
\* \s* is greedy and gives characters back until .+ can reach the end of the
\* input, which it cannot across a line terminator.
MatchRest(rest) ==
    LET ks == {k \in 0..LeadingSpace(rest) :
                 /\ k < Len(rest)
                 /\ \A i \in (k + 1)..Len(rest) : rest[i] \notin LineTerminators}
    IN  IF ks = {} THEN [matched |-> FALSE, type |-> <<>>, text |-> <<>>]
        ELSE LET k == CHOOSE x \in ks : \A y \in ks : y <= x
             IN  [matched |-> TRUE, type |-> <<>>, text |-> SubSeq(rest, k + 1, Len(rest))]

\* line.match(/^(vec|hyde):\s*(.+)$/i): groups 1 and 2, or no match
match(line) ==
    LET tryPrefix(n) ==
            /\ Len(line) > n
            /\ toLowerCase(SubSeq(line, 1, n)) \in {VEC, HYDE}
            /\ line[n + 1] = ":"
        n == IF tryPrefix(3) THEN 3 ELSE IF tryPrefix(4) THEN 4 ELSE 0
    IN  IF n = 0 THEN [matched |-> FALSE, type |-> <<>>, text |-> <<>>]
        ELSE [MatchRest(SubSeq(line, n + 2, Len(line))) EXCEPT !.type = SubSeq(line, 1, n)]

----------------------------------------------------------------------------
(* openrouter.ts: generate and expandQuery *)

\* a || b on numbers, an absent number being 0 (which is falsy as well)
OrNum(a, b) == IF a = 0 THEN b ELSE a

\* the body generate() posts
ChatRequest(inst, prompt, options) ==
    [model |-> inst.chatModel, prompt |-> prompt,
     max_tokens |-> OrNum(options.maxTokens, 500),
     temperatureTenths |-> OrNum(options.temperatureTenths, 0)]

\* generate() after its request settled
generate(outcome) ==
    LET r == request(outcome)
    IN  IF r.threw
        THEN Null
        ELSE [tag |-> "generated",
              text |-> IF Len(r.value.choices) = 0 THEN <<>> ELSE r.value.choices[1].content,
              model |-> r.value.model,
              done |-> TRUE]

\* the prompt expandQuery builds: the fixed instructions around query and context
ExpandPrompt(query, options) ==
    [tag |-> "expand", query |-> query,
     context |-> IF Falsy(options.context) THEN "" ELSE options.context]

\* Faulty variant: the type keeps the case the model wrote it in.
QueryablesOfKeepsCase(line, query) ==
    LET m == match(line)
        text == trim(m.text)
    IN  IF m.matched /\ text # <<>> /\ text # query
        THEN <<[type |-> m.type, text |-> text]>>
        ELSE <<>>

\* Faulty variant: a variant that repeats the query is kept.
QueryablesOfKeepsQuery(line, query) ==
    LET m == match(line)
        type == toLowerCase(m.type)
        text == trim(m.text)
    IN  IF m.matched /\ text # <<>>
        THEN <<[type |-> type, text |-> text]>>
        ELSE <<>>

\* the Queryables one line contributes
queryablesOf(line, query) ==
    LET m == match(line)
        type == toLowerCase(m.type)
        text == trim(m.text)
    IN  IF m.matched /\ text # <<>> /\ text # query
        THEN <<[type |-> type, text |-> text]>>
        ELSE <<>>

\* the loop of expandQuery over the lines
RECURSIVE queryablesOfLines(_, _)
queryablesOfLines(lines, query) ==
    IF lines = <<>> THEN <<>>
    ELSE queryablesOf(Head(lines), query) \o queryablesOfLines(Tail(lines), query)

\* Faulty variant: the fallback list is empty.
ExpandQueryEmptyFallback(query, outcome) ==
    LET result == generate(outcome)
    IN  IF result = Null
        THEN <<>>
        ELSE <<[type |-> VEC, text |-> query]>>
                \o queryablesOfLines(split(trim(result.text)), query)

\* Faulty variant: the original query is appended after the generated variants.
ExpandQueryOriginalLast(query, outcome) ==
    LET result == generate(outcome)
    IN  IF result = Null
        THEN <<[type |-> VEC, text |-> query]>>
        ELSE queryablesOfLines(split(trim(result.text)), query)
                \o <<[type |-> VEC, text |-> query]>>

\* Faulty variant: the generated text is split without being trimmed first.
ExpandQueryUntrimmedText(query, outcome) ==
    LET result == generate(outcome)
    IN  IF result = Null
        THEN <<[type |-> VEC, text |-> query]>>
        ELSE <<[type |-> VEC, text |-> query]>>
                \o queryablesOfLines(split(result.text), query)

\* expandQuery(query) after the request of its generate() settled
expandQuery(query, outcome) ==
    LET result == generate(outcome)
    IN  IF result = Null
        THEN <<[type |-> VEC, text |-> query]>>
        ELSE <<[type |-> VEC, text |-> query]>>
                \o queryablesOfLines(split(trim(result.text)), query)

----------------------------------------------------------------------------
(* Inputs of expandQuery and what the chat provider can answer *)

Queries == {<<>>, <<"q">>, <<"a">>}

\* options of expandQuery; an includeLexical left out is falsy, like false
ExpandOptions ==
    {[context |-> Undefined, includeLexical |-> FALSE],
     [context |-> "notes", includeLexical |-> TRUE]}

\* lines a chat model may write
GeneratedLines ==
    {<<"v", "e", "c", ":", " ", "a">>,
     <<"H", "Y", "D", "E", ":", "b">>,
     <<"v", "e", "c", ":", " ", "q">>,
     <<"v", "e", "c", ":", " ", " ">>,
     <<"l", "e", "x", ":", " ", "a">>,
     <<" ", "v", "e", "c", ":", " ", "b">>,
     <<"v", "e", "c", ":", " ", "a", CR>>,
     <<"h", "y", "d", "e", ":", " ", "q", " ">>,
     <<"V", "e", "c", ":", " ", "a", " ", "b">>,
     <<"v", "e", "c", ":">>,
     <<"v", "e", "c", ":", " ", CR, " ", "a">>,
     <<"h", "y", "d", "e", ":", "a", CR, "b">>,
     <<>>}

GeneratedTexts ==
    {join(ls) : ls \in UNION {[1..k -> GeneratedLines] : k \in 0..MaxLines}}

\* bodies of a 200 response to a /chat/completions request
ChatBodies(req) ==
    {[tag |-> "json", choices |-> <<>>, model |-> req.model]} \cup
    {[tag |-> "json", choices |-> <<[content |-> t]>>, model |-> req.model] :
        t \in GeneratedTexts}

\* the provider answers 200 to a /chat/completions request
FetchChat ==
    /\ PendingOn("/chat/completions")
    /\ \E body \in ChatBodies(net.request) :
          net' = [tag |-> "http", ok |-> TRUE, status |-> 200, body |-> body]
    /\ UNCHANGED <<pc, args, ret, nreq>>
    /\ UNCHANGED instVars
    /\ UNCHANGED loopVars
    /\ UNCHANGED defaultVars

Prompts == {[tag |-> "literal", text |-> "Say 'hello' and nothing else."]}
GenerateOptions == {[maxTokens |-> 0, temperatureTenths |-> 0],
                    [maxTokens |-> 10, temperatureTenths |-> 0]}

\* llm.generate(prompt, options) up to its await
GenerateCall(prompt, options) ==
    /\ pc = "idle"
    /\ llm # NoInstance
    /\ pc' = "generate"
    /\ args' = [tag |-> "generate", prompt |-> prompt, options |-> options]
    /\ net' = Fetch(llm, "/chat/completions", ChatRequest(llm, prompt, options))
    /\ nreq' = 1
    /\ ret' = NoRet
    /\ UNCHANGED instVars
    /\ UNCHANGED loopVars
    /\ UNCHANGED defaultVars

\* llm.generate(prompt, options) from its await to its return
GenerateResume ==
    /\ pc = "generate"
    /\ net.tag \in {"reject", "http"}
    /\ ret' = generate(net)
    /\ pc' = "done"
    /\ UNCHANGED <<args, net, nreq>>
    /\ UNCHANGED instVars
    /\ UNCHANGED loopVars
    /\ UNCHANGED defaultVars

\* llm.expandQuery(query, options) up to the await of its generate()
ExpandQueryCall(query, options) ==
    /\ pc = "idle"
    /\ llm # NoInstance
    /\ pc' = "expandQuery"
    /\ args' = [tag |-> "expandQuery", query |-> query, options |-> options]
    /\ net' = Fetch(llm, "/chat/completions",
                    ChatRequest(llm, ExpandPrompt(query, options),
                                [maxTokens |-> 300, temperatureTenths |-> 7]))
    /\ nreq' = 1
    /\ ret' = NoRet
    /\ UNCHANGED instVars
    /\ UNCHANGED loopVars
    /\ UNCHANGED defaultVars

\* llm.expandQuery(query, options) from that await to its return
ExpandQueryResume ==
    /\ pc = "expandQuery"
    /\ net.tag \in {"reject", "http"}
    /\ ret' = List(expandQuery(args.query, net))
    /\ pc' = "done"
    /\ UNCHANGED <<args, net, nreq>>
    /\ UNCHANGED instVars
    /\ UNCHANGED loopVars
    /\ UNCHANGED defaultVars

InitExpand ==
    /\ env = KeyOnlyEnv
    /\ llm = OpenRouterLLM([apiKey |-> Undefined, embedModel |-> Undefined,
                            chatModel |-> Undefined, baseUrl |-> Undefined],
                           KeyOnlyEnv).value
    /\ thrown = NoError
    /\ dims = NoDims
    /\ IdleCall
    /\ IdleLoop
    /\ NoDefault

NextExpand ==
    \/ \E query \in Queries, options \in ExpandOptions : ExpandQueryCall(query, options)
    \/ \E prompt \in Prompts, options \in GenerateOptions : GenerateCall(prompt, options)
    \/ FetchReject
    \/ \E status \in ErrorStatuses : FetchHttpError(status)
    \/ FetchInvalidBody
    \/ FetchChat
    \/ ExpandQueryResume
    \/ GenerateResume

SpecExpand == InitExpand /\ [][NextExpand]_vars

----------------------------------------------------------------------------
(* openrouter.test.ts: the indexing loop of the end-to-end pipeline *)

\* the documents the loop indexes; a document's name stands for the hash of
\* its content, the three contents being different
Docs == <<"auth.md", "database.md", "deployment.md">>

\* chunkDocument(doc.content).length: at least one chunk per document
ChunkCounts == 1..MaxChunks

\* titlePrefix + chunk.text of chunk s of document d
ChunkText(d, s) == <<Docs[d], s>>

\* insertEmbedding(db, hash, seq, pos, embedding, model, now)
insertEmbedding(db, hash, s, embedding, model) ==
    db \cup {[hash |-> hash, seq |-> s, embedding |-> embedding, model |-> model]}

\* bodies of a 200 response that holds exactly the items asked for, in order
CompleteBodies(req) ==
    LET texts == InputList(req)
    IN  {[tag |-> "json",
          data |-> [k \in DOMAIN texts |-> ProviderItem(texts, k - 1, len)],
          model |-> req.model] : len \in ProviderVectorLengths}

\* the provider answers 200 to an /embeddings request with all items
FetchEmbeddingsComplete ==
    /\ PendingOn("/embeddings")
    /\ \E body \in CompleteBodies(net.request) :
          net' = [tag |-> "http", ok |-> TRUE, status |-> 200, body |-> body]
    /\ UNCHANGED <<pc, args, ret, nreq>>
    /\ UNCHANGED instVars
    /\ UNCHANGED loopVars
    /\ UNCHANGED defaultVars

\* for (const doc of docs): the next document is inserted and chunked
LoopNextDoc ==
    /\ pc = "idle"
    /\ seq = chunks
    /\ docIx < Len(Docs)
    /\ docIx' = docIx + 1
    /\ seq' = 0
    /\ \E n \in ChunkCounts : chunks' = n
    /\ UNCHANGED <<store, failed>>
    /\ UNCHANGED callVars
    /\ UNCHANGED instVars
    /\ UNCHANGED defaultVars

\* const result = await llm.embed(titlePrefix + chunk.text), up to the await
LoopEmbed ==
    /\ docIx >= 1
    /\ seq < chunks
    /\ EmbedCall(ChunkText(docIx, seq))

\* if (result) insertEmbedding(...); seq++
LoopStore ==
    /\ pc = "done"
    /\ docIx >= 1
    /\ store' = IF ret # Null
                THEN insertEmbedding(store, Docs[docIx], seq, ret.embedding, DEFAULT_EMBED_MODEL)
                ELSE store
    /\ failed' = IF request(net).threw THEN failed \cup {<<Docs[docIx], seq>>} ELSE failed
    /\ seq' = seq + 1
    /\ pc' = "idle"
    /\ args' = NoArgs
    /\ net' = NoFetch
    /\ ret' = NoRet
    /\ nreq' = 0
    /\ UNCHANGED <<docIx, chunks>>
    /\ UNCHANGED instVars
    /\ UNCHANGED defaultVars

InitIndex ==
    /\ env = KeyOnlyEnv
    /\ llm = OpenRouterLLM([apiKey |-> Undefined, embedModel |-> Undefined,
                            chatModel |-> Undefined, baseUrl |-> Undefined],
                           KeyOnlyEnv).value
    /\ thrown = NoError
    /\ dims = NoDims
    /\ IdleCall
    /\ IdleLoop
    /\ NoDefault

NextIndex ==
    \/ LoopNextDoc
    \/ LoopEmbed
    \/ FetchReject
    \/ \E status \in ErrorStatuses : FetchHttpError(status)
    \/ FetchInvalidBody
    \/ FetchEmbeddingsComplete
    \/ EmbedResume
    \/ LoopStore

SpecIndex == InitIndex /\ [][NextIndex]_vars

----------------------------------------------------------------------------
(* Properties *)

\* the current call has returned
Returned(op) == pc = "done" /\ args.tag = op

\* the request of the current call failed: no response, or a status not OK
RequestFailed ==
    \/ net.tag = "reject"
    \/ net.tag = "http" /\ ~net.ok

\* the generation behind the current call failed: the request failed, or its
\* body could not be read
GenerationFailed ==
    \/ RequestFailed
    \/ net.tag = "http" /\ net.body.tag = "invalid"

\* the provider answered 200 with a parsed body
Answered == net.tag = "http" /\ net.ok /\ net.body.tag = "json"

OriginalQuery == [type |-> VEC, text |-> args.query]

\* C1: whatever the generation call came to (text of any form, empty text,
\* no result, an error), the list expandQuery(q) returns has at index 0
\* exactly {type: vec, text: q}.
C1_OriginalQueryFirst ==
    Returned("expandQuery") =>
        /\ ret.tag = "list"
        /\ Len(ret.items) >= 1
        /\ ret.items[1] = OriginalQuery

\* C1 witness: a generation that produced two variants for the query "q".
C1_Witness ==
    /\ Returned("expandQuery")
    /\ Answered
    /\ args.query = <<"q">>
    /\ Len(ret.items) = 3

\* C2: when the generation call behind expandQuery(q) fails, expandQuery
\* does not throw and returns exactly [{type: vec, text: q}].
C2_FallbackOnFailure ==
    (Returned("expandQuery") /\ GenerationFailed) =>
        /\ thrown = NoError
        /\ ret = List(<<OriginalQuery>>)

\* C2 witness: expandQuery("q") returned after the provider answered 500.
C2_Witness ==
    /\ Returned("expandQuery")
    /\ net.tag = "http"
    /\ ~net.ok
    /\ net.status = 500
    /\ args.query = <<"q">>

\* C3 as stated: every variant expandQuery returns, for any query and any
\* options, has type vec or hyde and a text that is not empty.
C3_EveryVariantTypedAndNonEmpty ==
    Returned("expandQuery") =>
        \A i \in 1..Len(ret.items) :
            /\ ret.items[i].type \in {VEC, HYDE}
            /\ Len(ret.items[i].text) > 0

\* C3 amended: every variant has type vec or hyde; every variant after
\* index 0 has a text that is not empty, and so has the one at index 0
\* when the query is not empty.
C3_VariantsTypedGeneratedNonEmpty ==
    Returned("expandQuery") =>
        \A i \in 1..Len(ret.items) :
            /\ ret.items[i].type \in {VEC, HYDE}
            /\ (i > 1 \/ args.query # <<>>) => Len(ret.items[i].text) > 0

\* C3 witness: the empty query expanded, with includeLexical set, into a list
\* that holds a hyde variant.
C3_Witness ==
    /\ Returned("expandQuery")
    /\ args.query = <<>>
    /\ args.options.includeLexical = TRUE
    /\ \E i \in 2..Len(ret.items) : ret.items[i].type = HYDE

\* the response to the current batch holds each index 0..n-1 exactly once
CompleteResponse ==
    /\ Answered
    /\ Len(net.body.data) = Len(args.texts)
    /\ {net.body.data[k].index : k \in DOMAIN net.body.data} = 0..(Len(args.texts) - 1)

\* C4: in whatever order the provider returns the items of a batch, element
\* i of the list embedBatch(texts) returns is the embedding the provider
\* tagged with index i, the embedding of texts[i].
C4_BatchAlignedByIndex ==
    (Returned("embedBatch") /\ Len(args.texts) > 0 /\ CompleteResponse) =>
        /\ Len(ret.items) = Len(args.texts)
        /\ \A i \in 1..Len(args.texts) :
              /\ ret.items[i].tag = "embedding"
              /\ ret.items[i].embedding.of = args.texts[i]
              /\ \E k \in DOMAIN net.body.data :
                    /\ net.body.data[k].index = i - 1
                    /\ net.body.data[k].embedding = ret.items[i].embedding

\* C4 witness: a batch of two different texts answered in reverse order.
C4_Witness ==
    /\ Returned("embedBatch")
    /\ Len(args.texts) = 2
    /\ args.texts[1] # args.texts[2]
    /\ CompleteResponse
    /\ net.body.data[1].index = 1

\* C5: embedBatch(texts) returns a list of exactly texts.length entries for
\* every outcome: empty input, a failed request, a response with fewer or
\* more items than were sent.
C5_BatchLengthMatchesInput ==
    Returned("embedBatch") => Len(ret.items) = Len(args.texts)

\* C6: when the request of embedBatch(texts) fails, embedBatch does not
\* throw and returns null for every input text.
C6_BatchFailureAllNull ==
    (Returned("embedBatch") /\ Len(args.texts) > 0 /\ RequestFailed) =>
        /\ thrown = NoError
        /\ ret.tag = "list"
        /\ Len(ret.items) = Len(args.texts)
        /\ \A i \in 1..Len(ret.items) : ret.items[i] = Null

\* C6 witness: a batch of two texts whose request got a status that is not OK.
C6_Witness ==
    /\ Returned("embedBatch")
    /\ Len(args.texts) = 2
    /\ net.tag = "http"
    /\ ~net.ok

\* the results of the current embed or embedBatch call that are not null
NonNullResults ==
    IF args.tag = "embed"
    THEN IF ret = Null THEN {} ELSE {ret}
    ELSE {ret.items[i] : i \in {j \in 1..Len(ret.items) : ret.items[j] # Null}}

\* C7: every result of embed or embedBatch that is not null carries a vector
\* whose length is getEmbeddingDimensions(), for every response the client
\* accepts, a response with an empty data array included.
C7_VectorLengthIsDeclared ==
    (Returned("embed") \/ Returned("embedBatch")) =>
        \A r \in NonNullResults : r.embedding.len = getEmbeddingDimensions(llm)

\* the request of the current call threw inside request()
ProviderCallFailed == net.tag \in {"reject", "http"} /\ request(net).threw

\* C8, the state part: embed resolved to null without throwing when its
\* provider call failed, and no stored row belongs to a chunk whose provider
\* call failed.
C8_NoRowForFailedChunk ==
    /\ (Returned("embed") /\ ProviderCallFailed) => (ret = Null /\ thrown = NoError)
    /\ \A r \in store : <<r.hash, r.seq>> \notin failed

\* C8: if the provider call for a chunk fails, embed returns null without
\* throwing, the loop stores no row for that chunk and goes on to the next
\* chunk; rows exist only for chunks whose provider call succeeded.
C8_FailedChunkSkipped ==
    /\ []C8_NoRowForFailedChunk
    /\ [][(pc = "done" /\ pc' = "idle" /\ ProviderCallFailed) =>
            (store' = store /\ seq' = seq + 1 /\ docIx' = docIx /\ thrown' = NoError)]_vars

\* C8 witness: the loop reached the last document, the first document has a
\* failed chunk and a later document has a stored row.
C8_Witness ==
    /\ docIx = Len(Docs)
    /\ \E f \in failed : f[1] = Docs[1]
    /\ \E r \in store : r.hash # Docs[1]

\* the key the constructor was given: config.apiKey, else the environment's
GivenKey ==
    IF ~Falsy(args.config.apiKey) THEN args.config.apiKey ELSE env.OPENROUTER_API_KEY

\* C9: construction throws "OpenRouter API key required..." and yields no
\* instance when neither config.apiKey nor OPENROUTER_API_KEY is a non-empty
\* string; it succeeds when either is, config.apiKey taking precedence.
C9_ApiKeyRequired ==
    args.tag = "new" =>
        IF Falsy(args.config.apiKey) /\ Falsy(env.OPENROUTER_API_KEY)
        THEN thrown = ApiKeyError /\ llm = NoInstance
        ELSE thrown = NoError /\ llm.tag = "llm" /\ llm.apiKey = GivenKey

\* C9 witness: construction attempted with both keys the empty string.
C9_Witness ==
    /\ args.tag = "new"
    /\ args.config.apiKey = ""
    /\ env.OPENROUTER_API_KEY = ""
    /\ thrown = ApiKeyError

\* the instance's embedding model has no declared dimensionality
UndeclaredModel ==
    /\ llm # NoInstance
    /\ llm.embedModel \notin DOMAIN EMBEDDING_DIMENSIONS

\* C10: when the configured embedding model has no declared dimensionality,
\* no dimensionality value is reported and no embedding is produced for it.
C10_UndeclaredModelIsFatal ==
    UndeclaredModel =>
        /\ dims = NoDims
        /\ (Returned("embed") \/ Returned("embedBatch")) => NonNullResults = {}

\* the model name the constructor is to settle on: configured, else the
\* environment's, else the default
ResolvedModel(configured, fromEnv, default) ==
    IF ~Falsy(configured) THEN configured
    ELSE IF ~Falsy(fromEnv) THEN fromEnv
    ELSE default

\* the dimensionalities declared for the three known embedding models
DeclaredDimensions(model) ==
    CASE model = "openai/text-embedding-3-large" -> {3072}
      [] model = "openai/text-embedding-3-small" -> {1536}
      [] model = "openai/text-embedding-ada-002" -> {1536}
      [] OTHER -> {}

\* C11: a constructed instance uses config.embedModel, else QMD_EMBED_MODEL,
\* else openai/text-embedding-3-large, and config.chatModel, else
\* QMD_CHAT_MODEL, else openai/gpt-4o-mini; getEmbeddingDimensions returns the
\* declared dimensionality of the resolved embedding model when it has one.
C11_ModelPrecedenceAndDimensions ==
    (args.tag = "new" /\ llm # NoInstance) =>
        /\ llm.embedModel = ResolvedModel(args.config.embedModel, env.QMD_EMBED_MODEL,
                                          "openai/text-embedding-3-large")
        /\ llm.chatModel = ResolvedModel(args.config.chatModel, env.QMD_CHAT_MODEL,
                                         "openai/gpt-4o-mini")
        /\ (dims # NoDims /\ DeclaredDimensions(llm.embedModel) # {}) =>
               dims.value \in DeclaredDimensions(llm.embedModel)

\* C11 witness: configuration and environment name different models, the
\* configured ones were taken, and the dimensionality was reported.
C11_Witness ==
    /\ args.tag = "new"
    /\ args.config.embedModel = "openai/text-embedding-ada-002"
    /\ env.QMD_EMBED_MODEL = "openai/text-embedding-3-small"
    /\ args.config.chatModel = "anthropic/claude-3-haiku"
    /\ env.QMD_CHAT_MODEL = "openai/gpt-4o"
    /\ llm # NoInstance
    /\ llm.embedModel = "openai/text-embedding-ada-002"
    /\ llm.chatModel = "anthropic/claude-3-haiku"
    /\ dims # NoDims
    /\ dims.value = 1536

----------------------------------------------------------------------------
(* openrouter.ts: rerank *)

\* most documents handed to rerank
MaxRerankDocs == 4

\* Scores are modelled in hundredths: Score(index) stands for 1 - index * 0.01.
Score(index) == 100 - index

\* Faulty variant: every document gets the score of the first one.
RerankFlatScores(query, documents) ==
    [results |-> [i \in 1..Len(documents) |->
                    [file |-> documents[i].file, score |-> Score(0), index |-> i - 1]],
     model |-> "none"]

\* this.rerank(query, documents): documents.map((doc, index) => ...)
rerank(query, documents) ==
    [results |-> [i \in 1..Len(documents) |->
                    [file |-> documents[i].file, score |-> Score(i - 1), index |-> i - 1]],
     model |-> "none"]

RerankFiles == {"a.md", "b.md", "c.md"}
RerankDocuments == {[file |-> f, text |-> <<f>>] : f \in RerankFiles}
RerankDocumentLists == UNION {[1..n -> RerankDocuments] : n \in 0..MaxRerankDocs}
RerankQueries == {<<>>, <<"q">>}

\* llm.rerank(query, documents): the body has no await, so it runs to its return
Rerank(query, documents) ==
    /\ pc = "idle"
    /\ llm # NoInstance
    /\ args' = [tag |-> "rerank", query |-> query, documents |-> documents]
    /\ ret' = [tag |-> "rerank"] @@ rerank(query, documents)
    /\ pc' = "done"
    /\ UNCHANGED <<net, nreq>>
    /\ UNCHANGED instVars
    /\ UNCHANGED loopVars
    /\ UNCHANGED defaultVars

\* the caller takes the result
RerankReturn ==
    /\ pc = "done"
    /\ args.tag = "rerank"
    /\ pc' = "idle"
    /\ args' = NoArgs
    /\ ret' = NoRet
    /\ UNCHANGED <<net, nreq>>
    /\ UNCHANGED instVars
    /\ UNCHANGED loopVars
    /\ UNCHANGED defaultVars

InitRerank ==
    /\ env = KeyOnlyEnv
    /\ llm \in Instances
    /\ thrown = NoError
    /\ dims = NoDims
    /\ IdleCall
    /\ IdleLoop
    /\ NoDefault

NextRerank ==
    \/ \E query \in RerankQueries, documents \in RerankDocumentLists :
          Rerank(query, documents)
    \/ RerankReturn

SpecRerank == InitRerank /\ [][NextRerank]_vars

\* x goes before the first element of s whose score is lower (stable)
RECURSIVE InsertByScoreDesc(_, _)
InsertByScoreDesc(x, s) ==
    IF s = <<>> THEN <<x>>
    ELSE IF Head(s).score < x.score THEN <<x>> \o s
    ELSE <<Head(s)>> \o InsertByScoreDesc(x, Tail(s))

\* results sorted by descending score, equal scores in every possible order
\* being excluded by the claim's strict decrease
RECURSIVE SortByScoreDesc(_)
SortByScoreDesc(results) ==
    IF results = <<>> THEN <<>>
    ELSE InsertByScoreDesc(Head(results), SortByScoreDesc(Tail(results)))

----------------------------------------------------------------------------
(* llm.ts: the default instance *)

\* the configuration of new OpenRouterLLM()
NoConfig ==
    [apiKey |-> Undefined, embedModel |-> Undefined, chatModel |-> Undefined,
     baseUrl |-> Undefined]

\* Faulty variant: the default is assigned although construction threw.
GetDefaultLLMKeepsFailure(current, e, n) ==
    IF current = NoInstance
    THEN LET r == OpenRouterLLM(NoConfig, e)
         IN  IF r.threw
             THEN [threw |-> TRUE, error |-> r.error, default |-> Instance("lazy", n + 1),
                   value |-> NoInstance, constructed |-> TRUE]
             ELSE [threw |-> FALSE, error |-> NoError, default |-> Instance("lazy", n + 1),
                   value |-> Instance("lazy", n + 1), constructed |-> TRUE]
    ELSE [threw |-> FALSE, error |-> NoError, default |-> current,
          value |-> current, constructed |-> FALSE]

\* getDefaultLLM() with the default being `current`, under environment e, n
\* instances having been constructed before: the new default, and the value
\* returned or the error thrown
getDefaultLLM(current, e, n) ==
    IF current = NoInstance
    THEN LET r == OpenRouterLLM(NoConfig, e)
         IN  IF r.threw
             THEN [threw |-> TRUE, error |-> r.error, default |-> current,
                   value |-> NoInstance, constructed |-> FALSE]
             ELSE [threw |-> FALSE, error |-> NoError, default |-> Instance("lazy", n + 1),
                   value |-> Instance("lazy", n + 1), constructed |-> TRUE]
    ELSE [threw |-> FALSE, error |-> NoError, default |-> current,
          value |-> current, constructed |-> FALSE]

GetNames == {"getDefaultLLM", "getDefaultLlamaCpp"}
DisposeNames == {"disposeDefaultLLM", "disposeDefaultLlamaCpp"}

\* getDefaultLLM(), or getDefaultLlamaCpp() which forwards to it
GetDefaultLLM(via) ==
    /\ LET r == getDefaultLLM(defaultLLM, env, created)
       IN  /\ r.constructed => created < MaxConstructed
           /\ defaultLLM' = r.default
           /\ created' = IF r.constructed THEN created + 1 ELSE created
           /\ thrown' = r.error
           /\ got' = r.value
           /\ sinceGot' = IF sinceGot = NoInstance THEN r.value ELSE sinceGot
           /\ getFailed' = (getFailed \/ r.threw)
           /\ args' = [tag |-> "getDefaultLLM", via |-> via,
                       hadDefault |-> defaultLLM # NoInstance,
                       constructed |-> r.constructed]
    /\ UNCHANGED <<env, llm, dims, pc, net, ret, nreq>>
    /\ UNCHANGED <<disposed, dpc, began, installed>>
    /\ UNCHANGED loopVars

\* the instances a caller can hand to setDefaultLLM
Settable == ExternalInstances \cup {Instance("lazy", n) : n \in 1..created}

\* setDefaultLLM(x), x an instance or null
SetDefaultLLM(x) ==
    /\ defaultLLM' = x
    /\ installed' = x
    /\ sinceGot' = NoInstance
    /\ thrown' = NoError
    /\ args' = [tag |-> "setDefaultLLM", llm |-> x]
    /\ UNCHANGED <<env, llm, dims, pc, net, ret, nreq>>
    /\ UNCHANGED <<created, disposed, dpc, began, got, getFailed>>
    /\ UNCHANGED loopVars

\* call p of disposeDefaultLLM(), or of disposeDefaultLlamaCpp() which forwards
\* to it, up to its await: with a default set, dispose() is invoked on it and
\* the call suspends; with none set, the call is over
DisposeDefaultLLMBegin(p, via) ==
    /\ dpc[p] = "idle"
    /\ IF defaultLLM # NoInstance
       THEN /\ disposed' = [disposed EXCEPT ![defaultLLM] = @ + 1]
            /\ dpc' = [dpc EXCEPT ![p] = "awaiting"]
       ELSE /\ disposed' = disposed
            /\ dpc' = [dpc EXCEPT ![p] = "done"]
    /\ began' = [began EXCEPT ![p] = defaultLLM]
    /\ sinceGot' = NoInstance
    /\ installed' = NoInstance
    /\ thrown' = NoError
    /\ args' = [tag |-> "disposeDefaultLLM", via |-> via, p |-> p, phase |-> "begin"]
    /\ UNCHANGED <<env, llm, dims, pc, net, ret, nreq>>
    /\ UNCHANGED <<defaultLLM, created, got, getFailed>>
    /\ UNCHANGED loopVars

\* Faulty variant: the call ends without clearing the default.
DisposeDefaultLLMEndKeepsDefault(p) ==
    /\ dpc[p] = "awaiting"
    /\ defaultLLM' = defaultLLM
    /\ dpc' = [dpc EXCEPT ![p] = "done"]
    /\ args' = [tag |-> "disposeDefaultLLM", p |-> p, phase |-> "end"]
    /\ UNCHANGED <<env, llm, thrown, dims, pc, net, ret, nreq>>
    /\ UNCHANGED <<created, disposed, began, got, sinceGot, installed, getFailed>>
    /\ UNCHANGED loopVars

\* call p of disposeDefaultLLM() from its await to its end: defaultLLM = null
DisposeDefaultLLMEnd(p) ==
    /\ dpc[p] = "awaiting"
    /\ defaultLLM' = NoInstance
    /\ dpc' = [dpc EXCEPT ![p] = "done"]
    /\ args' = [tag |-> "disposeDefaultLLM", p |-> p, phase |-> "end"]
    /\ UNCHANGED <<env, llm, thrown, dims, pc, net, ret, nreq>>
    /\ UNCHANGED <<created, disposed, began, got, sinceGot, installed, getFailed>>
    /\ UNCHANGED loopVars

\* process.env.OPENROUTER_API_KEY = key
SetApiKey ==
    /\ Falsy(env.OPENROUTER_API_KEY)
    /\ env' = [env EXCEPT !.OPENROUTER_API_KEY = "sk-env"]
    /\ args' = [tag |-> "env"]
    /\ UNCHANGED <<llm, thrown, dims, pc, net, ret, nreq>>
    /\ UNCHANGED defaultVars
    /\ UNCHANGED loopVars

\* delete process.env.OPENROUTER_API_KEY
DeleteApiKey ==
    /\ ~Falsy(env.OPENROUTER_API_KEY)
    /\ env' = [env EXCEPT !.OPENROUTER_API_KEY = Undefined]
    /\ args' = [tag |-> "env"]
    /\ UNCHANGED <<llm, thrown, dims, pc, net, ret, nreq>>
    /\ UNCHANGED defaultVars
    /\ UNCHANGED loopVars

InitDefault ==
    /\ env \in {KeyOnlyEnv, [KeyOnlyEnv EXCEPT !.OPENROUTER_API_KEY = Undefined]}
    /\ llm = NoInstance
    /\ thrown = NoError
    /\ dims = NoDims
    /\ IdleCall
    /\ IdleLoop
    /\ NoDefault

NextDefault ==
    \/ \E via \in GetNames : GetDefaultLLM(via)
    \/ \E x \in Settable \cup {NoInstance} : SetDefaultLLM(x)
    \/ \E p \in Disposers, via \in DisposeNames : DisposeDefaultLLMBegin(p, via)
    \/ \E p \in Disposers : DisposeDefaultLLMEnd(p)
    \/ SetApiKey
    \/ DeleteApiKey

SpecDefault == InitDefault /\ [][NextDefault]_vars

----------------------------------------------------------------------------
(* Properties of the default instance *)

\* C13: two getDefaultLLM / getDefaultLlamaCpp calls with no setDefaultLLM or
\* disposeDefaultLLM call between them return the same instance, and an
\* instance is constructed only by a getDefaultLLM call made while no default
\* instance is set.
C13_SameInstanceBetweenCalls ==
    /\ (sinceGot # NoInstance /\ got # NoInstance) => got = sinceGot
    /\ (args.tag = "getDefaultLLM" /\ args.constructed) => ~args.hadDefault

\* this step is a getDefaultLLM call (every other step of the layer leaves
\* another tag in args)
GetStep == args'.tag = "getDefaultLLM"

\* this step is call p of disposeDefaultLLM running up to its await or end
DisposeBeginStep(p) == dpc[p] = "idle" /\ dpc'[p] # "idle"

\* this step is call p of disposeDefaultLLM completing
DisposeCompleteStep(p) == dpc[p] # "done" /\ dpc'[p] = "done"

\* some disposeDefaultLLM call that found an instance has completed, and no
\* default instance is set
AfterDispose ==
    /\ defaultLLM = NoInstance
    /\ \E p \in Disposers : dpc[p] = "done" /\ began[p] # NoInstance

\* what any disposeDefaultLLM call does: with no default set it invokes no
\* dispose and changes nothing; with one set it invokes that instance's
\* dispose; when it completes no default is set
DisposeEffect ==
    \A p \in Disposers :
        /\ (DisposeBeginStep(p) /\ defaultLLM = NoInstance) =>
              /\ dpc'[p] = "done"
              /\ disposed' = disposed
              /\ defaultLLM' = NoInstance
              /\ created' = created
        /\ (DisposeBeginStep(p) /\ defaultLLM # NoInstance) =>
              /\ disposed'[defaultLLM] = disposed[defaultLLM] + 1
              /\ began'[p] = defaultLLM
        /\ DisposeCompleteStep(p) => defaultLLM' = NoInstance

\* the step constructs an instance that did not exist before, makes it the
\* default and returns it
ConstructsNewInstance ==
    /\ created' = created + 1
    /\ got' = Instance("lazy", created')
    /\ got' \notin Settable
    /\ \A p \in Disposers : got' # began[p]
    /\ defaultLLM' = got'

\* C14 as stated: after a disposeDefaultLLM call completes no default instance
\* is set; if one was set when the call began, its dispose was invoked and the
\* next getDefaultLLM constructs a new, distinct instance; if none was set, the
\* call invokes no dispose and changes nothing.
C14_DisposeThenGetConstructs ==
    [][/\ DisposeEffect
       /\ (GetStep /\ AfterDispose) => ConstructsNewInstance]_vars

\* C14 amended: as above, the next getDefaultLLM constructing a new, distinct
\* instance when an API key is available, and otherwise throwing and leaving
\* the default unset.
C14_DisposeThenGetConstructsGivenKey ==
    [][/\ DisposeEffect
       /\ (GetStep /\ AfterDispose) =>
             IF ~Falsy(env.OPENROUTER_API_KEY)
             THEN ConstructsNewInstance
             ELSE /\ thrown' = ApiKeyError
                  /\ defaultLLM' = NoInstance
                  /\ created' = created]_vars

\* C14 witness: a dispose call that found an instance has completed, and the
\* getDefaultLLM after it constructed and returned another instance.
C14_Witness ==
    /\ args.tag = "getDefaultLLM"
    /\ args.constructed
    /\ \E p \in Disposers :
          /\ dpc[p] = "done"
          /\ began[p] # NoInstance
          /\ disposed[began[p]] >= 1
          /\ got # began[p]
    /\ defaultLLM = got

----------------------------------------------------------------------------
(* All provider-calling operations of one instance *)

InitCalls == InitEmbed

NextCalls ==
    \/ NextEmbed
    \/ NextExpand

SpecCalls == InitCalls /\ [][NextCalls]_vars

\* the current call is suspended at the await of its provider request
Awaiting == pc \in {"embed", "embedBatch", "generate", "expandQuery"}

\* C15: provider calls are never retried: embed, generate and a non-empty
\* embedBatch issue exactly one provider request whether it succeeds or fails,
\* embedBatch([]) issues none, and expandQuery issues exactly one generation
\* request.
C15_OneRequestPerCall ==
    /\ Awaiting => nreq = 1
    /\ Returned("embed") => nreq = 1
    /\ Returned("generate") => nreq = 1
    /\ Returned("embedBatch") => nreq = (IF Len(args.texts) = 0 THEN 0 ELSE 1)
    /\ Returned("expandQuery") =>
          /\ nreq = 1
          /\ net.tag # "pending"
    /\ (Awaiting /\ pc = "expandQuery" /\ net.tag = "pending") =>
          net.request.endpoint = "/chat/completions"

\* C15 witness: embed returned after its only request failed.
C15_Witness ==
    /\ Returned("embed")
    /\ RequestFailed
    /\ ret = Null
    /\ nreq = 1

\* The runtime resumes a suspended call once its fetch has settled; nothing
\* obliges the provider to answer, and the code arms no timer.
FairSpecCalls ==
    /\ SpecCalls
    /\ WF_vars(EmbedResume)
    /\ WF_vars(EmbedBatchResume)
    /\ WF_vars(GenerateResume)
    /\ WF_vars(ExpandQueryResume)

\* C16: every provider request is bounded by a per-call timeout: an embed,
\* embedBatch, generate or expandQuery call suspended at its provider request
\* eventually returns, even when the provider never responds.
C16_CallsEventuallyReturn == Awaiting ~> (pc = "done")

----------------------------------------------------------------------------
(* Properties of the parse in expandQuery *)

\* the text the provider generated for the current call
GeneratedText ==
    IF Len(net.body.choices) = 0 THEN <<>> ELSE net.body.choices[1].content

\* length of the prefix of a line that begins with vec: or hyde: in any
\* letter case, 0 for any other line
PrefixLength(line) ==
    LET has(n) == /\ Len(line) > n
                  /\ toLowerCase(SubSeq(line, 1, n)) \in {VEC, HYDE}
                  /\ line[n + 1] = ":"
    IN  IF has(3) THEN 3 ELSE IF has(4) THEN 4 ELSE 0

\* what follows the colon of such a line
AfterColon(line) == SubSeq(line, PrefixLength(line) + 2, Len(line))

\* the line has the form "vec: <text>" or "hyde: <text>"
HasVariantForm(line) ==
    /\ PrefixLength(line) > 0
    /\ trim(AfterColon(line)) # <<>>

\* the variant such a line denotes: type lower-cased, text trimmed
VariantOf(line) ==
    [type |-> toLowerCase(SubSeq(line, 1, PrefixLength(line))),
     text |-> trim(AfterColon(line))]

\* the variants of the lines marked in keep, in the order of the lines
RECURSIVE VariantsOf(_, _)
VariantsOf(lines, keep) ==
    IF lines = <<>> THEN <<>>
    ELSE (IF Head(keep) THEN <<VariantOf(Head(lines))>> ELSE <<>>)
            \o VariantsOf(Tail(lines), Tail(keep))

\* the variants of the lines of text that have the stated form
FormattedVariants(text) ==
    LET lines == split(text)
    IN  VariantsOf(lines, [i \in DOMAIN lines |-> HasVariantForm(lines[i])])

\* the elements of the returned list after index 0
GeneratedVariants == SubSeq(ret.items, 2, Len(ret.items))

TextPart(line) ==
    LET rest == AfterColon(line)
    IN  SubSeq(rest, LeadingSpace(rest) + 1, Len(rest))

\* the line is one expandQuery takes: of the form above, its text free of
\* carriage returns and, trimmed, different from the original query
TakenLine(line) ==
    /\ HasVariantForm(line)
    /\ \A i \in DOMAIN TextPart(line) : TextPart(line)[i] # CR
    /\ trim(AfterColon(line)) # args.query

SetStep == args'.tag = "setDefaultLLM"

\* C18: after setDefaultLLM(x) with a non-null x every getDefaultLLM call
\* returns x without constructing anything, until the next setDefaultLLM or
\* disposeDefaultLLM call; after setDefaultLLM(null) the next getDefaultLLM
\* constructs a new instance (stated here for the case that an API key is
\* available, see C14); setDefaultLLM never invokes dispose on the instance it
\* replaces.
C18_SetInstallsUntilReplaced ==
    [][/\ (GetStep /\ installed # NoInstance) =>
             /\ got' = installed
             /\ created' = created
       /\ (GetStep /\ args.tag = "setDefaultLLM" /\ args.llm = NoInstance
                   /\ ~Falsy(env.OPENROUTER_API_KEY)) => ConstructsNewInstance
       /\ SetStep => disposed' = disposed]_vars

\* C19: a getDefaultLLM call whose lazy construction fails for want of an API
\* key throws and leaves the default instance unset; the failure is not
\* cached: a getDefaultLLM call made with a key available and no default set
\* constructs and returns an instance.
C19_FailedConstructionNotCached ==
    [][GetStep =>
          /\ (defaultLLM = NoInstance /\ Falsy(env.OPENROUTER_API_KEY)) =>
                /\ thrown' = ApiKeyError
                /\ got' = NoInstance
                /\ defaultLLM' = NoInstance
                /\ created' = created
          /\ (defaultLLM = NoInstance /\ ~Falsy(env.OPENROUTER_API_KEY)) =>
                /\ thrown' = NoError
                /\ got' \in LazyInstances
                /\ got' \notin Settable
                /\ defaultLLM' = got']_vars

\* C19 witness: a getDefaultLLM call has thrown, a key is available now, and
\* the first instance has just been constructed and returned.
C19_Witness ==
    /\ getFailed
    /\ args.tag = "getDefaultLLM"
    /\ args.constructed
    /\ ~Falsy(env.OPENROUTER_API_KEY)
    /\ created = 1
    /\ thrown = NoError
    /\ got = defaultLLM
    /\ got = Instance("lazy", 1)

\* C20: under any interleaving of concurrent disposeDefaultLLM calls, each
\* suspending at the await of the instance's dispose before it clears the
\* default, dispose is invoked at most once on any given instance.
C20_DisposedAtMostOnce == \A i \in DefaultInstances : disposed[i] <= 1

\* C21: under any interleaving of getDefaultLLM, setDefaultLLM and a pending
\* disposeDefaultLLM, getDefaultLLM never returns an instance whose dispose
\* has already been invoked, and disposeDefaultLLM clears only the instance it
\* disposed: an instance installed by setDefaultLLM while the dispose is
\* pending is still the default after the dispose completes.
C21_DisposeClearsOnlyWhatItDisposed ==
    [][/\ (GetStep /\ got' # NoInstance) => disposed[got'] = 0
       /\ \A p \in Disposers :
             (dpc[p] = "awaiting" /\ DisposeCompleteStep(p) /\ defaultLLM # began[p]) =>
                 defaultLLM' = defaultLLM]_vars

\* C22: in the list expandQuery(q) returns, no element after index 0 has a
\* text equal to q, so that the original query occurs exactly once in the
\* result, whatever the generation came to.
C22_OriginalQueryOccursOnce ==
    Returned("expandQuery") =>
        /\ \A i \in 2..Len(ret.items) : ret.items[i].text # args.query
        /\ Cardinality({i \in 1..Len(ret.items) : ret.items[i].text = args.query}) = 1

\* C22 witness: the generated text repeats the query "q" in its first line and
\* offers another variant in its second, and only the latter was returned
\* after the original query.
C22_Witness ==
    /\ Returned("expandQuery")
    /\ Answered
    /\ args.query = <<"q">>
    /\ split(GeneratedText) = << <<"h", "y", "d", "e", ":", " ", "q", " ">>,
                                 <<"v", "e", "c", ":", " ", "a">> >>
    /\ Len(ret.items) = 2
    /\ ret.items[2] = [type |-> VEC, text |-> <<"a">>]

====
